---- MODULE Spec2Model ----
(***************************************************************************)
(* Client-side session store (AuthContext.js), HTTP client wrapper         *)
(* (api.js) and the navigation guard (ProtectedRoute) of the feedback      *)
(* application, as a state machine.                                        *)
(*                                                                         *)
(* JavaScript values are modelled as strings: null is "null", undefined is *)
(* "undefined", tokens and user records are named strings.  The scheduling *)
(* is the browser's single-threaded event loop: every action is one task   *)
(* (an event handler, or the continuation of an await together with the    *)
(* interceptors that run in the same microtask chain).                     *)
(***************************************************************************)
EXTENDS Integers, Sequences, FiniteSets, TLC

VARIABLES localStorage, user, token, loading,
          checkPc, storedToken, loginPc, access_token, signupPc, feedbackPc,
          navPending, last, request,
          mounted, dashboard, historyView, card, form

\* the state of the views (Dashboard, FeedbackHistory, InsightsCard) and of
\* the Login and Signup forms
pageVars == <<dashboard, historyView, card>>
viewVars == <<mounted, dashboard, historyView, card, form>>

vars == <<localStorage, user, token, loading,
          checkPc, storedToken, loginPc, access_token, signupPc, feedbackPc,
          navPending, last, request,
          mounted, dashboard, historyView, card, form>>

(***************************************************************************)
(* Bounds                                                                  *)
(***************************************************************************)
\* number of login calls that can be in flight at once (a Login view that is
\* remounted starts with a fresh, enabled form)
MaxLogins == 2
\* number of distinct access tokens / user records the backend hands out
MaxTokens == 2
MaxUsers == 2

(***************************************************************************)
(* Values                                                                  *)
(***************************************************************************)
NoVal == "null"
Undefined == "undefined"

TokenName(n) == IF n = 1 THEN "t1" ELSE IF n = 2 THEN "t2" ELSE IF n = 3 THEN "t3" ELSE "t4"
UserName(n) == IF n = 1 THEN "u1" ELSE IF n = 2 THEN "u2" ELSE IF n = 3 THEN "u3" ELSE "u4"
Tokens == {TokenName(n) : n \in 1..MaxTokens}
Users == {UserName(n) : n \in 1..MaxUsers}
LoginIds == 1..MaxLogins

\* values of the `detail` field of an error body: absent, empty, a message
Details == {NoVal, "", "Invalid credentials"}

\* JavaScript truthiness of the values used here
Truthy(v) == v \notin {NoVal, Undefined, ""}

\* a || b
Or(a, b) == IF Truthy(a) THEN a ELSE b

\* JSON.stringify of a user record
JSONstringify(u) ==
  IF u = "u1" THEN "{\"username\":\"u1\"}"
  ELSE IF u = "u2" THEN "{\"username\":\"u2\"}"
  ELSE IF u = "u3" THEN "{\"username\":\"u3\"}"
  ELSE IF u = "u4" THEN "{\"username\":\"u4\"}"
  ELSE u

\* localStorage.setItem stores String(value): the value undefined becomes the
\* nine-character string, which is truthy
ToStorage(v) == IF v = Undefined THEN "'undefined'" ELSE v

EmptyStorage == [token |-> NoVal, user |-> NoVal]

(***************************************************************************)
(* Backend responses, as seen by axios                                     *)
(***************************************************************************)
ErrResponses ==
  {[kind |-> "http", status |-> s, detail |-> d, payload |-> NoVal] :
      s \in {400, 401}, d \in Details}
  \cup {[kind |-> "network", status |-> 0, detail |-> NoVal, payload |-> NoVal]}

OkResponses(P) ==
  {[kind |-> "ok", status |-> 200, detail |-> NoVal, payload |-> p] : p \in P}

\* POST /auth/login: body {access_token: t}, a body without the field
\* (payload Undefined) or a null body (payload NoVal)
LoginResponses == OkResponses(Tokens \cup {Undefined, NoVal}) \cup ErrResponses
\* GET /auth/me: the user record
MeResponses == OkResponses(Users) \cup ErrResponses
\* POST /auth/signup and the feedback endpoints: the body is not used here
PlainResponses == OkResponses({NoVal}) \cup ErrResponses

\* the error axios rejects with
AxiosError(r) ==
  IF r.kind = "network"
  THEN [hasResponse |-> FALSE, status |-> 0, detail |-> NoVal,
        message |-> "Network Error", code |-> "ERR_NETWORK"]
  ELSE [hasResponse |-> TRUE, status |-> r.status, detail |-> r.detail,
        message |-> IF r.status = 401
                    THEN "Request failed with status code 401"
                    ELSE "Request failed with status code 400",
        code |-> "ERR_BAD_REQUEST"]

\* the TypeError of destructuring a null body
TypeError ==
  [hasResponse |-> FALSE, status |-> 0, detail |-> NoVal,
   message |-> "Cannot destructure property 'access_token'", code |-> Undefined]

(***************************************************************************)
(* api.js: request interceptor                                             *)
(***************************************************************************)
\* the configuration of a request as it leaves the wrapper; the header is
\* <<"Bearer", t>> for `Bearer ${t}` and <<>> when none is added
NoData == [type |-> "none"]
NoRequest == [url |-> NoVal, Authorization |-> <<>>, data |-> NoData]

\* variant: the header is added without the `if (token)` test
RequestInterceptor_Unconditional(url, ls) ==
  [url |-> url, Authorization |-> <<"Bearer", ls.token>>, data |-> NoData]

RequestInterceptor(url, ls) ==
  [url |-> url,
   Authorization |-> IF Truthy(ls.token) THEN <<"Bearer", ls.token>> ELSE <<>>,
   data |-> NoData]

(***************************************************************************)
(* api.js: response interceptor                                            *)
(***************************************************************************)
Is401(r) == r.kind = "http" /\ r.status = 401

\* localStorage after the response interceptor has seen r
InterceptStorage(r, ls) == IF Is401(r) THEN EmptyStorage ELSE ls

\* variant: the interceptor clears the storage but does not navigate
InterceptNav_NoRedirect(r, nav) == nav

\* window.location.href = '/login'
InterceptNav(r, nav) == IF Is401(r) THEN TRUE ELSE nav

(***************************************************************************)
(* AuthContext.js: derived values                                          *)
(***************************************************************************)
isAuthenticated == Truthy(token)

\* error.response?.data?.detail || error.message || (ERR_NETWORK ? ... : dflt)
CannotConnect == "Cannot connect to server. Make sure the backend is running on port 8000."

\* variant: the transport message is consulted before the server's detail
ErrorMessage_MessageFirst(error, dflt) ==
  Or(error.message,
     Or(IF error.hasResponse THEN error.detail ELSE Undefined,
        IF error.code = "ERR_NETWORK" THEN CannotConnect ELSE dflt))

ErrorMessage(error, dflt) ==
  Or(IF error.hasResponse THEN error.detail ELSE Undefined,
     Or(error.message,
        IF error.code = "ERR_NETWORK" THEN CannotConnect ELSE dflt))

Success == [success |-> TRUE, error |-> Undefined]
Failure(msg) == [success |-> FALSE, error |-> msg]
NoResult == [success |-> FALSE, error |-> NoVal]

\* variant: the guard looks at isAuthenticated before the loading flag
ProtectedRoute_AuthFirst ==
  IF isAuthenticated THEN "children"
  ELSE IF loading THEN "spinner" ELSE "redirect"

\* Login.js: ProtectedRoute
ProtectedRoute ==
  IF loading THEN "spinner"
  ELSE IF isAuthenticated THEN "children" ELSE "redirect"

\* Login.js / Signup.js: the form is rendered (neither spinner nor redirect)
FormRendered == ~loading /\ ~isAuthenticated

Anonymous == ~loading /\ ~isAuthenticated
Authenticated == ~loading /\ isAuthenticated

(***************************************************************************)
(* Record of the step just taken                                           *)
(***************************************************************************)
\* op: the handler or continuation that ran; the response it consumed; the
\* result it returned; tok: the access_token local of the login call that
\* returned; wasAuth: whether the session was Authenticated before the step
Step(op, tok, r, ret) ==
  [op |-> op, tok |-> tok, kind |-> r.kind, status |-> r.status,
   detail |-> r.detail, payload |-> r.payload, ret |-> ret,
   wasAuth |-> Authenticated]

NoResponse == [kind |-> "none", status |-> 0, detail |-> NoVal, payload |-> NoVal]

(***************************************************************************)
(* Server payloads of the feedback endpoints.  A JavaScript value is a     *)
(* record tagged with its type.  A story text is described by what the     *)
(* classifiers look at: its length and whether it contains the marker      *)
(* '[Fallback]' and the canned opening 'As a user, I want to address'.     *)
(* Sentiments are in thousandths (0.73 is 730), so that a percentage with  *)
(* one decimal, as produced by toFixed(1), is the same integer in tenths   *)
(* of a percent (73.0% is 730).                                            *)
(***************************************************************************)
\* storyText.length < 50
MinStoryLength == 50
\* '[Fallback]'.length and 'As a user, I want to address'.length
MarkerLength == 10
CannedLength == 28
\* the thresholds 10 and -10 (percent) of the distribution, in tenths
BucketThreshold == 100

\* number of themes of an insights payload
MaxThemes == 3

Undef == [type |-> "undefined"]
Null == [type |-> "null"]
Num(n) == [type |-> "number", num |-> n]
\* a string holding the decimal text of n, and a string that is not a number
NumString(n) == [type |-> "numstring", num |-> n]
NaNString == [type |-> "string"]
NaN == [type |-> "NaN"]

Str(len, marker, canned) ==
  [type |-> "string", len |-> len, marker |-> marker, canned |-> canned]

StoryLengths == {0, 12, 49, 50}

StoryTexts ==
  {Str(l, m, c) : l \in StoryLengths, m \in BOOLEAN, c \in BOOLEAN} \ 
  {t \in {Str(l, m, c) : l \in StoryLengths, m \in BOOLEAN, c \in BOOLEAN} :
      t.len < (IF t.marker THEN MarkerLength ELSE 0)
              + (IF t.canned THEN CannedLength ELSE 0)}

\* user_story of a response: missing, a text, or (malformed) a number
StoryValues == {Undef, Num(12345)} \cup StoryTexts

\* summary: missing, a text with or without 'unavailable', or a number
Summary(unavailable) == [type |-> "string", unavailable |-> unavailable]
SummaryValues == {Undef, Num(42), Summary(TRUE), Summary(FALSE)}

Theme(name, sentiment, count) ==
  [type |-> "object", name |-> name, sentiment |-> sentiment, count |-> count]

Array(items) == [type |-> "array", items |-> items]

\* themes: missing, a sequence of themes (possibly with a null entry), or
\* (malformed) a string
ThemesValues ==
  {Undef, [type |-> "string", len |-> 7],
   Array(<<Theme("General Feedback", Num(0), Num(1))>>),
   Array(<<Theme("General Feedback", Num(0), Num(1)),
           Theme("Pricing", Num(500), Num(2))>>),
   Array(<<Null>>)}

Insights(source, reason, summary, themes) ==
  [type |-> "object", source |-> source, reason |-> reason,
   summary |-> summary, themes |-> themes]

\* {}
EmptyObject == Insights(Undefined, Undefined, Undef, Undef)

InsightsObjects ==
  {Insights(s, r, m, t) : s \in {Undefined, "fallback", "openai"},
                          r \in {Undefined, "API unavailable"},
                          m \in SummaryValues, t \in ThemesValues}

\* a JSON text: one that parses to the object `parsed`, or one that does not
JSONText(valid, parsed) == [type |-> "string", valid |-> valid, parsed |-> parsed]

\* insights of a response: missing, an object, or a JSON text
InsightsValues ==
  {Undef} \cup InsightsObjects
  \cup {JSONText(FALSE, EmptyObject), JSONText(TRUE, Null),
        JSONText(TRUE, Insights("fallback", "API unavailable", Summary(TRUE), Undef)),
        JSONText(TRUE, Insights(Undefined, Undefined, Summary(FALSE),
                                Array(<<Theme("Pricing", Num(500), Num(2))>>)))}

Bodies(stories, insights) ==
  {[sentiment |-> Num(800), sentiment_label |-> "positive",
    user_story |-> st, insights |-> ins] : st \in stories, ins \in insights}

\* POST /feedback/submit: every story with a few insights, and every
\* insights value with a few stories
SubmitData ==
  Bodies(StoryValues,
         {Undef,
          Insights("openai", Undefined, Summary(FALSE),
                   Array(<<Theme("General Feedback", Num(0), Num(1)),
                           Theme("Pricing", Num(500), Num(2))>>))})
  \cup Bodies({Str(50, FALSE, FALSE), Str(12, FALSE, FALSE)}, InsightsValues)

SubmitResponses ==
  {[kind |-> "ok", status |-> 200, detail |-> NoVal, payload |-> d] : d \in SubmitData}
  \cup ErrResponses

(***************************************************************************)
(* JavaScript operators on these values                                    *)
(***************************************************************************)
\* !!v
TruthyValue(v) ==
  CASE v.type \in {"undefined", "null", "NaN"} -> FALSE
    [] v.type = "number" -> v.num # 0
    [] v.type = "numstring" -> TRUE
    [] v.type = "string" -> IF "len" \in DOMAIN v THEN v.len > 0 ELSE TRUE
    [] OTHER -> TRUE

\* Object.keys(v).length > 0
HasKeys(v) ==
  CASE v.type = "object" ->
         \/ v.source # Undefined \/ v.reason # Undefined
         \/ v.summary # Undef \/ v.themes # Undef
    [] v.type = "string" -> TRUE
    [] OTHER -> FALSE

(***************************************************************************)
(* Dashboard.handleSubmit: classification of a submit response             *)
(***************************************************************************)
EmptyString == Str(0, FALSE, FALSE)

\* data.insights || {}, then JSON.parse of a string ({} when it fails)
InsightsData(insights) ==
  LET v == IF TruthyValue(insights) THEN insights ELSE EmptyObject
  IN IF v.type = "string"
     THEN IF v.valid THEN v.parsed ELSE EmptyObject
     ELSE v

\* data.user_story || ''
StoryText(user_story) ==
  IF TruthyValue(user_story) THEN user_story ELSE EmptyString

\* variant: the length test is left out
IsStoryFallback_NoLength(storyText) ==
  \/ storyText.marker
  \/ storyText.canned
  \/ ~TruthyValue(storyText)

\* isStoryFallback, for a storyText that is a string
IsStoryFallback(storyText) ==
  \/ storyText.marker
  \/ storyText.canned
  \/ ~TruthyValue(storyText)
  \/ storyText.len < MinStoryLength

StoryData(storyText) ==
  [story |-> storyText,
   source |-> IF IsStoryFallback(storyText) THEN "fallback" ELSE "openai",
   reason |-> IF IsStoryFallback(storyText) THEN "API unavailable" ELSE Undefined]

\* x.summary?.includes('unavailable') is reached and summary has no
\* `includes` method
SummaryIncludesThrows(ins) ==
  /\ ins.source # "fallback"
  /\ ~Truthy(ins.reason)
  /\ ~Truthy(ins.source)
  /\ ins.summary.type = "number"

\* !x.source && x.summary?.includes('unavailable')
SummaryRule(ins) ==
  /\ ~Truthy(ins.source)
  /\ ins.summary.type = "string"
  /\ ins.summary.unavailable

\* !x.source && x.themes?.length === 1 && x.themes[0]?.name === 'General Feedback'
GeneralFeedbackRule(ins) ==
  /\ ~Truthy(ins.source)
  /\ ins.themes.type = "array"
  /\ Len(ins.themes.items) = 1
  /\ ins.themes.items[1].type = "object"
  /\ ins.themes.items[1].name = "General Feedback"

\* isInsightsFallback, for insightsData that is an object and an
\* evaluation that does not throw
IsInsightsFallback(ins) ==
  \/ ins.source = "fallback"
  \/ Truthy(ins.reason)
  \/ SummaryRule(ins)
  \/ GeneralFeedbackRule(ins)

\* the statement of the try block at which a TypeError is thrown
\* ("none" when the block completes)
ThrowsAt(data) ==
  IF StoryText(data.user_story).type # "string" THEN "isStoryFallback"
  ELSE IF InsightsData(data.insights).type # "object" THEN "isInsightsFallback"
  ELSE IF SummaryIncludesThrows(InsightsData(data.insights)) THEN "isInsightsFallback"
  ELSE "none"

FailedToAnalyze == "Failed to analyze feedback"
PleaseEnter == "Please enter some feedback"

(***************************************************************************)
(* StoryCard                                                               *)
(***************************************************************************)
\* the fallback chip of <StoryCard story={story}/>, story.story a string
StoryCard(story) ==
  \/ story.source = "fallback"
  \/ story.story.marker
  \/ story.story.canned
  \/ Truthy(story.reason)

(***************************************************************************)
(* InsightsCard                                                            *)
(***************************************************************************)
\* theme.name || 'Unknown'
ThemeName(theme) == IF Truthy(theme.name) THEN theme.name ELSE "Unknown"

\* ((theme.sentiment || 0) * 100).toFixed(1): the text of a percentage in
\* tenths, or the text 'NaN'
ThemeSentiment(theme) ==
  LET v == IF TruthyValue(theme.sentiment) THEN theme.sentiment ELSE Num(0)
  IN IF v.type \in {"number", "numstring"} THEN NumString(v.num) ELSE NaNString

\* theme.count || 1
ThemeCount(theme) ==
  IF TruthyValue(theme.count) THEN theme.count ELSE Num(1)

ThemesData(items) ==
  [k \in 1..Len(items) |->
     [name |-> ThemeName(items[k]),
      sentiment |-> ThemeSentiment(items[k]),
      count |-> ThemeCount(items[k])]]

\* parseFloat(t.sentiment), in tenths of a percent
ParseFloat(v) == IF v.type = "numstring" THEN Num(v.num) ELSE NaN

IsPositive(t) ==
  ParseFloat(t.sentiment).type = "number" /\ ParseFloat(t.sentiment).num > BucketThreshold
IsNeutral(t) ==
  /\ ParseFloat(t.sentiment).type = "number"
  /\ ParseFloat(t.sentiment).num >= -BucketThreshold
  /\ ParseFloat(t.sentiment).num <= BucketThreshold
IsNegative(t) ==
  ParseFloat(t.sentiment).type = "number" /\ ParseFloat(t.sentiment).num < -BucketThreshold

\* the indexes kept by themesData.filter(...)
Positives(themesData) == {k \in 1..Len(themesData) : IsPositive(themesData[k])}
Neutrals(themesData) == {k \in 1..Len(themesData) : IsNeutral(themesData[k])}
Negatives(themesData) == {k \in 1..Len(themesData) : IsNegative(themesData[k])}

\* [{value: filter(...).length}, ...].filter((item) => item.value > 0)
SentimentDistribution(themesData) ==
  SelectSeq(<<[name |-> "Positive", value |-> Cardinality(Positives(themesData))],
              [name |-> "Neutral", value |-> Cardinality(Neutrals(themesData))],
              [name |-> "Negative", value |-> Cardinality(Negatives(themesData))]>>,
            LAMBDA item : item.value > 0)

\* the properties read from the prop: a string has none of them
Props(insights) == IF insights.type = "object" THEN insights ELSE EmptyObject

\* evaluating the body of InsightsCard throws a TypeError: summary has no
\* `includes`, themes has no `map`, or a theme entry is null
InsightsCardThrows(insights) ==
  \/ SummaryIncludesThrows(Props(insights))
  \/ Props(insights).themes.type = "string"
  \/ /\ Props(insights).themes.type = "array"
     /\ \E k \in 1..Len(Props(insights).themes.items) :
           Props(insights).themes.items[k].type = "null"

NoRender == [rendered |-> FALSE]
Threw == [rendered |-> TRUE, threw |-> TRUE]

\* what <InsightsCard insights={insights}/> computes
InsightsCard(insights) ==
  IF InsightsCardThrows(insights) THEN Threw
  ELSE LET themesData == IF Props(insights).themes.type = "array"
                         THEN ThemesData(Props(insights).themes.items) ELSE <<>>
       IN [rendered |-> TRUE, threw |-> FALSE,
           isFallback |-> \/ Props(insights).source = "fallback"
                          \/ Truthy(Props(insights).reason)
                          \/ SummaryRule(Props(insights)),
           themesData |-> themesData,
           sentimentDistribution |-> SentimentDistribution(themesData)]

(***************************************************************************)
(* Dashboard and FeedbackHistory: component state                          *)
(***************************************************************************)
DashboardInit ==
  [feedback |-> "", sentiment |-> Null, story |-> Null, insights |-> Null,
   loading |-> FALSE, error |-> "", fallbackWarning |-> FALSE,
   successOpen |-> FALSE]

\* pending: the calls of handleDeleteConfirm that are waiting for their
\* response, each with the values its closure captured; confirmed: the ids
\* whose deletion the backend has confirmed to this view
HistoryInit ==
  [history |-> <<>>, loading |-> TRUE, selectedFeedback |-> Null, error |-> "",
   deleteDialogOpen |-> FALSE, feedbackToDelete |-> Null,
   pending |-> <<>>, confirmed |-> {}]

\* what the user types: nothing, blanks only, a text
FeedbackTexts == {"", "   ", "The checkout is slow"}

\* text.trim(), for the texts of the model
Trim(text) ==
  CASE text \in {"  ", "   "} -> ""
    [] text = "a  " -> "a"
    [] text = " a@b.c" -> "a@b.c"
    [] OTHER -> text

\* the stored records: every story with every insights value
HistoryItems ==
  {[id |-> 1, sentiment |-> b.sentiment, sentiment_label |-> b.sentiment_label,
    user_story |-> b.user_story, insights |-> b.insights] :
      b \in Bodies(StoryValues, InsightsValues)}

\* GET /feedback/history: a list with no item or one item
HistoryResponses ==
  OkResponses({<<>>} \cup {<<item>> : item \in HistoryItems}) \cup ErrResponses

\* a response as recorded in `last`: the body is left out
Plain(r) == [r EXCEPT !.payload = NoVal]

NoCard == [insights |-> EmptyObject, out |-> NoRender]

(***************************************************************************)
(* What the two views render                                               *)
(***************************************************************************)
\* Dashboard: {!loading && (sentiment || story || insights) && ...}
DashboardResultsShown ==
  /\ mounted = "Dashboard"
  /\ ~dashboard.loading
  /\ (dashboard.sentiment # Null \/ dashboard.story # Null \/ dashboard.insights # Null)

\* {story && <StoryCard story={story} />}
DashboardStoryCardShown == DashboardResultsShown /\ dashboard.story # Null

\* {insights && Object.keys(insights).length > 0 && <InsightsCard .../>}
DashboardInsightsCardShown ==
  /\ DashboardResultsShown
  /\ dashboard.insights # Null
  /\ HasKeys(dashboard.insights)

\* FeedbackHistory: the detail pane of the selected item
DetailShown ==
  /\ mounted = "FeedbackHistory"
  /\ ~historyView.loading
  /\ historyView.selectedFeedback # Null

\* {selectedFeedback.user_story && ...}
DetailStoryShown ==
  DetailShown /\ TruthyValue(historyView.selectedFeedback.user_story)

\* storyText.includes is not a function
DetailStoryThrows(item) == item.user_story.type # "string"

\* selectedFeedback.insights?.source and ?.reason
InsightsField(insights, field) ==
  IF insights.type = "object" THEN insights[field] ELSE Undefined

\* the story prop handed to StoryCard by the detail pane
DetailStory(item) ==
  LET storyText == item.user_story
      isFallback == \/ storyText.marker
                    \/ storyText.canned
                    \/ storyText.len < MinStoryLength
  IN [story |-> item.user_story,
      source |-> IF isFallback THEN "fallback"
                 ELSE Or(InsightsField(item.insights, "source"), "openai"),
      reason |-> InsightsField(item.insights, "reason")]

\* {selectedFeedback.insights && Object.keys(...).length > 0 && <InsightsCard/>}
DetailInsightsCardShown ==
  /\ DetailShown
  /\ TruthyValue(historyView.selectedFeedback.insights)
  /\ HasKeys(historyView.selectedFeedback.insights)

(***************************************************************************)
(* Dashboard handlers                                                      *)
(***************************************************************************)
authVars == <<user, token, loading, checkPc, storedToken, loginPc, access_token, signupPc>>

\* onChange of the text field (disabled while loading)
SetFeedback(text) ==
  /\ ~navPending
  /\ mounted = "Dashboard"
  /\ ~dashboard.loading
  /\ dashboard' = [dashboard EXCEPT !.feedback = text]
  /\ last' = Step("setFeedback", NoVal, NoResponse, NoResult)
  /\ request' = NoRequest
  /\ UNCHANGED <<authVars, localStorage, feedbackPc, navPending, mounted, historyView, card, form>>

\* handleSubmit up to its await.  The button is disabled while loading; the
\* blank-text test of the button is repeated by the handler itself
HandleSubmit ==
  /\ ~navPending
  /\ mounted = "Dashboard"
  /\ ~dashboard.loading
  /\ IF Trim(dashboard.feedback) = ""
     THEN /\ dashboard' = [dashboard EXCEPT !.error = PleaseEnter]
          /\ request' = NoRequest
     ELSE /\ dashboard' = [dashboard EXCEPT !.loading = TRUE, !.error = "",
                                            !.fallbackWarning = FALSE,
                                            !.sentiment = Null, !.story = Null,
                                            !.insights = Null]
          /\ request' = RequestInterceptor("/feedback/submit", localStorage)
  /\ last' = Step("handleSubmit", NoVal, NoResponse, NoResult)
  /\ UNCHANGED <<authVars, localStorage, feedbackPc, navPending, mounted, historyView, card, form>>

\* dashboard state after the try block has run on the body `data`
Classified(d, data) ==
  LET at == ThrowsAt(data)
      storyText == StoryText(data.user_story)
      insightsData == InsightsData(data.insights)
  IN [d EXCEPT
        !.sentiment = [sentiment |-> data.sentiment, label |-> data.sentiment_label],
        !.story = IF at = "isStoryFallback" THEN Null ELSE StoryData(storyText),
        !.fallbackWarning = IF at = "none"
                            THEN IsInsightsFallback(insightsData) \/ IsStoryFallback(storyText)
                            ELSE @,
        !.insights = IF at = "none" THEN insightsData ELSE @,
        !.feedback = IF at = "none" THEN "" ELSE @,
        !.successOpen = IF at = "none" THEN TRUE ELSE @,
        !.error = IF at = "none" THEN @ ELSE FailedToAnalyze,
        !.loading = FALSE]

\* handleSubmit from the await on: try, catch, finally
SubmitResolve(r) ==
  /\ ~navPending
  /\ mounted = "Dashboard"
  /\ dashboard.loading
  /\ localStorage' = InterceptStorage(r, localStorage)
  /\ navPending' = InterceptNav(r, navPending)
  /\ dashboard' = IF r.kind = "ok"
                  THEN Classified(dashboard, r.payload)
                  ELSE [dashboard EXCEPT
                          !.error = Or(IF AxiosError(r).hasResponse
                                       THEN AxiosError(r).detail ELSE Undefined,
                                       FailedToAnalyze),
                          !.loading = FALSE]
  /\ last' = Step("submit", NoVal, Plain(r), NoResult)
  /\ request' = NoRequest
  /\ UNCHANGED <<authVars, feedbackPc, mounted, historyView, card, form>>

\* onClose of the warning banner
CloseFallbackWarning ==
  /\ ~navPending
  /\ mounted = "Dashboard"
  /\ dashboard.fallbackWarning
  /\ dashboard' = [dashboard EXCEPT !.fallbackWarning = FALSE]
  /\ last' = Step("closeFallbackWarning", NoVal, NoResponse, NoResult)
  /\ request' = NoRequest
  /\ UNCHANGED <<authVars, localStorage, feedbackPc, navPending, mounted, historyView, card, form>>

\* onClose of the success snackbar
CloseSuccess ==
  /\ ~navPending
  /\ mounted = "Dashboard"
  /\ dashboard.successOpen
  /\ dashboard' = [dashboard EXCEPT !.successOpen = FALSE]
  /\ last' = Step("closeSuccess", NoVal, NoResponse, NoResult)
  /\ request' = NoRequest
  /\ UNCHANGED <<authVars, localStorage, feedbackPc, navPending, mounted, historyView, card, form>>

\* navigate('/history'): Dashboard is unmounted (a submit still in flight
\* keeps only its interceptor, see FeedbackResolve), FeedbackHistory is
\* mounted and its effect starts loadHistory
NavigateHistory ==
  /\ ~navPending
  /\ mounted = "Dashboard"
  /\ IF dashboard.loading
     THEN feedbackPc = "idle" /\ feedbackPc' = "await"
     ELSE UNCHANGED feedbackPc
  /\ mounted' = "FeedbackHistory"
  /\ dashboard' = DashboardInit
  /\ historyView' = HistoryInit
  /\ request' = RequestInterceptor("/feedback/history", localStorage)
  /\ last' = Step("navigateHistory", NoVal, NoResponse, NoResult)
  /\ UNCHANGED <<authVars, localStorage, navPending, card, form>>

(***************************************************************************)
(* FeedbackHistory handlers                                                *)
(***************************************************************************)
\* loadHistory from the await on
LoadHistoryResolve(r) ==
  /\ ~navPending
  /\ mounted = "FeedbackHistory"
  /\ historyView.loading
  /\ localStorage' = InterceptStorage(r, localStorage)
  /\ navPending' = InterceptNav(r, navPending)
  /\ historyView' = IF r.kind = "ok"
                    THEN [historyView EXCEPT !.history = r.payload, !.loading = FALSE]
                    ELSE [historyView EXCEPT !.error = "Failed to load feedback history",
                                             !.loading = FALSE]
  /\ last' = Step("loadHistory", NoVal, Plain(r), NoResult)
  /\ request' = NoRequest
  /\ UNCHANGED <<authVars, feedbackPc, mounted, dashboard, card, form>>

\* onClick of a list entry (the open dialog is modal: the list behind it
\* takes no clicks)
SetSelectedFeedback(k) ==
  /\ ~navPending
  /\ mounted = "FeedbackHistory"
  /\ ~historyView.loading
  /\ ~historyView.deleteDialogOpen
  /\ k \in 1..Len(historyView.history)
  /\ historyView' = [historyView EXCEPT !.selectedFeedback = historyView.history[k]]
  /\ last' = Step("setSelectedFeedback", NoVal, NoResponse, NoResult)
  /\ request' = NoRequest
  /\ UNCHANGED <<authVars, localStorage, feedbackPc, navPending, mounted, dashboard, card, form>>

\* navigate('/dashboard'): the button is rendered once loading is over; a
\* submit left in flight by the previous dashboard has resolved by then
NavigateDashboard ==
  /\ ~navPending
  /\ mounted = "FeedbackHistory"
  /\ ~historyView.loading
  /\ feedbackPc = "idle"
  /\ mounted' = "Dashboard"
  /\ dashboard' = DashboardInit
  /\ historyView' = HistoryInit
  /\ last' = Step("navigateDashboard", NoVal, NoResponse, NoResult)
  /\ request' = NoRequest
  /\ UNCHANGED <<authVars, localStorage, feedbackPc, navPending, card, form>>

(***************************************************************************)
(* FeedbackHistory: deleting                                               *)
(***************************************************************************)
\* items of a loaded history, deletes in flight at the same time
MaxItems == 2
MaxDeletes == 2

HistoryItem(k) ==
  [id |-> k, sentiment |-> Num(800), sentiment_label |-> "positive",
   user_story |-> Str(50, FALSE, FALSE), insights |-> Undef]

\* GET /feedback/history: the first n stored items
ItemListResponses ==
  OkResponses({[k \in 1..n |-> HistoryItem(k)] : n \in 0..MaxItems}) \cup ErrResponses

FailedToDelete == "Failed to delete feedback"

\* history.filter((item) => item.id !== id)
Without(history, id) == SelectSeq(history, LAMBDA item : item.id # id)

\* a sequence without its k-th element
Remove(seq, k) == [j \in 1..(Len(seq) - 1) |-> IF j < k THEN seq[j] ELSE seq[j + 1]]

\* handleDeleteClick(item.id), from the delete button of a list entry
HandleDeleteClick(k) ==
  /\ ~navPending
  /\ mounted = "FeedbackHistory"
  /\ ~historyView.loading
  /\ ~historyView.deleteDialogOpen
  /\ k \in 1..Len(historyView.history)
  /\ historyView' = [historyView EXCEPT
                       !.feedbackToDelete = Num(historyView.history[k].id),
                       !.deleteDialogOpen = TRUE]
  /\ last' = Step("handleDeleteClick", NoVal, NoResponse, NoResult)
  /\ request' = NoRequest
  /\ UNCHANGED <<authVars, localStorage, feedbackPc, navPending, mounted, dashboard, card, form>>

\* the Cancel button and onClose of the dialog
CancelDelete ==
  /\ ~navPending
  /\ mounted = "FeedbackHistory"
  /\ historyView.deleteDialogOpen
  /\ historyView' = [historyView EXCEPT !.deleteDialogOpen = FALSE]
  /\ last' = Step("cancelDelete", NoVal, NoResponse, NoResult)
  /\ request' = NoRequest
  /\ UNCHANGED <<authVars, localStorage, feedbackPc, navPending, mounted, dashboard, card, form>>

\* handleDeleteConfirm up to its await: the call keeps the history, the
\* selection and the id of the render it was created in
HandleDeleteConfirm ==
  /\ ~navPending
  /\ mounted = "FeedbackHistory"
  /\ historyView.deleteDialogOpen
  /\ Len(historyView.pending) < MaxDeletes
  /\ IF ~TruthyValue(historyView.feedbackToDelete)
     THEN UNCHANGED historyView /\ request' = NoRequest
     ELSE /\ historyView' =
               [historyView EXCEPT
                  !.pending = Append(@, [feedbackToDelete |-> historyView.feedbackToDelete.num,
                                         history |-> historyView.history,
                                         selectedFeedback |-> historyView.selectedFeedback])]
          /\ request' = RequestInterceptor("/feedback/id", localStorage)
  /\ last' = Step("handleDeleteConfirm", NoVal, NoResponse, NoResult)
  /\ UNCHANGED <<authVars, localStorage, feedbackPc, navPending, mounted, dashboard, card, form>>

\* handleDeleteConfirm from the await on, for the k-th call in flight
DeleteResolve(k, r) ==
  /\ ~navPending
  /\ mounted = "FeedbackHistory"
  /\ k \in 1..Len(historyView.pending)
  /\ localStorage' = InterceptStorage(r, localStorage)
  /\ navPending' = InterceptNav(r, navPending)
  /\ LET call == historyView.pending[k]
     IN historyView' =
          IF r.kind = "ok"
          THEN [historyView EXCEPT
                  !.history = Without(call.history, call.feedbackToDelete),
                  !.selectedFeedback =
                     IF call.selectedFeedback # Null
                        /\ call.selectedFeedback.id = call.feedbackToDelete
                     THEN Null ELSE @,
                  !.deleteDialogOpen = FALSE,
                  !.feedbackToDelete = Null,
                  !.pending = Remove(@, k),
                  !.confirmed = @ \cup {call.feedbackToDelete}]
          ELSE [historyView EXCEPT !.error = FailedToDelete,
                                   !.pending = Remove(@, k)]
  /\ last' = Step("deleteFeedback", NoVal, r, NoResult)
  /\ request' = NoRequest
  /\ UNCHANGED <<authVars, feedbackPc, mounted, dashboard, card, form>>

(***************************************************************************)
(* Login.js and Signup.js: the forms                                       *)
(***************************************************************************)
FormInit ==
  [username |-> "", email |-> "", password |-> "", error |-> "",
   successMessage |-> "", loading |-> FALSE]

\* what the user types: nothing, blanks, a short name, a short name
\* followed by blanks, a name
Usernames == {"", "  ", "ab", "a  ", "abc"}
Emails == {"", "  ", "abc", "a@b.c", " a@b.c"}
Passwords == {"", "12345", "123456"}

MinUsernameLength == 3
MinPasswordLength == 6

\* /^[^\s@]+@[^\s@]+\.[^\s@]+$/.test(email)
EmailMatches(email) == email = "a@b.c"

Unexpected == "An unexpected error occurred. Please try again."
AccountCreated == "Account created successfully! Please sign in."

\* the message of the first validation that fails, "" when all pass
LoginValidation(f) ==
  IF Trim(f.username) = "" THEN "Username is required"
  ELSE IF f.password = "" THEN "Password is required"
  ELSE ""

SignupValidation(f) ==
  IF Trim(f.username) = "" THEN "Username is required"
  ELSE IF Len(f.username) < MinUsernameLength
       THEN "Username must be at least 3 characters"
  ELSE IF Trim(f.email) = "" THEN "Email is required"
  ELSE IF ~EmailMatches(f.email) THEN "Please enter a valid email address"
  ELSE IF f.password = "" THEN "Password is required"
  ELSE IF Len(f.password) < MinPasswordLength
       THEN "Password must be at least 6 characters"
  ELSE ""

\* onChange of the fields (disabled while the form is loading)
SetUsername(v) ==
  /\ ~navPending
  /\ mounted \in {"Login", "Signup"}
  /\ FormRendered
  /\ ~form.loading
  /\ form' = [form EXCEPT !.username = v]
  /\ last' = Step("setUsername", NoVal, NoResponse, NoResult)
  /\ request' = NoRequest
  /\ UNCHANGED <<authVars, localStorage, feedbackPc, navPending, mounted, pageVars>>

SetEmail(v) ==
  /\ ~navPending
  /\ mounted = "Signup"
  /\ FormRendered
  /\ ~form.loading
  /\ form' = [form EXCEPT !.email = v]
  /\ last' = Step("setEmail", NoVal, NoResponse, NoResult)
  /\ request' = NoRequest
  /\ UNCHANGED <<authVars, localStorage, feedbackPc, navPending, mounted, pageVars>>

SetPassword(v) ==
  /\ ~navPending
  /\ mounted \in {"Login", "Signup"}
  /\ FormRendered
  /\ ~form.loading
  /\ form' = [form EXCEPT !.password = v]
  /\ last' = Step("setPassword", NoVal, NoResponse, NoResult)
  /\ request' = NoRequest
  /\ UNCHANGED <<authVars, localStorage, feedbackPc, navPending, mounted, pageVars>>

\* Login.handleSubmit up to its await: validation, then login(...) up to
\* the POST (the submit button is disabled while loading)
LoginFormSubmit ==
  /\ ~navPending
  /\ mounted = "Login"
  /\ FormRendered
  /\ ~form.loading
  /\ loginPc[1] = "idle"
  /\ IF LoginValidation(form) # ""
     THEN /\ form' = [form EXCEPT !.error = LoginValidation(form), !.successMessage = ""]
          /\ request' = NoRequest
          /\ UNCHANGED <<loginPc, access_token>>
     ELSE /\ form' = [form EXCEPT !.error = "", !.successMessage = "", !.loading = TRUE]
          /\ loginPc' = [loginPc EXCEPT ![1] = "awaitLogin"]
          /\ access_token' = [access_token EXCEPT ![1] = NoVal]
          /\ request' = [RequestInterceptor("/auth/login", localStorage) EXCEPT
                           !.data = [type |-> "credentials",
                                     username |-> Trim(form.username),
                                     password |-> form.password]]
  /\ last' = Step("loginFormSubmit", NoVal, NoResponse, NoResult)
  /\ UNCHANGED <<localStorage, user, token, loading, checkPc, storedToken, signupPc,
                 feedbackPc, navPending, mounted, pageVars>>

\* Signup.handleSubmit up to its await: validation, then signup(...) up to
\* the POST
SignupFormSubmit ==
  /\ ~navPending
  /\ mounted = "Signup"
  /\ FormRendered
  /\ ~form.loading
  /\ signupPc = "idle"
  /\ IF SignupValidation(form) # ""
     THEN /\ form' = [form EXCEPT !.error = SignupValidation(form)]
          /\ request' = NoRequest
          /\ UNCHANGED signupPc
     ELSE /\ form' = [form EXCEPT !.error = "", !.loading = TRUE]
          /\ signupPc' = "await"
          /\ request' = [RequestInterceptor("/auth/signup", localStorage) EXCEPT
                           !.data = [type |-> "userData",
                                     username |-> Trim(form.username),
                                     email |-> Trim(form.email),
                                     password |-> form.password]]
  /\ last' = Step("signupFormSubmit", NoVal, NoResponse, NoResult)
  /\ UNCHANGED <<localStorage, user, token, loading, checkPc, storedToken, loginPc,
                 access_token, feedbackPc, navPending, mounted, pageVars>>

\* setToken(access_token) makes Login render <Navigate to="/dashboard"/>:
\* the form is unmounted and the dashboard is mounted
LoginTokenSet(tok) ==
  IF mounted = "Login" /\ Truthy(tok)
  THEN mounted' = "Dashboard" /\ form' = FormInit
  ELSE UNCHANGED <<mounted, form>>

\* Login.handleSubmit after `await login(...)` returned ret (NoResult: it
\* threw); navigate('/dashboard') of a session without token is sent back
\* to a fresh login form by ProtectedRoute
LoginReturn(ret) ==
  IF mounted = "Login"
  THEN IF ret.success
       THEN /\ mounted' = IF Truthy(token) THEN "Dashboard" ELSE "Login"
            /\ form' = FormInit
       ELSE /\ form' = [form EXCEPT
                          !.loading = FALSE,
                          !.error = IF ret = NoResult THEN Unexpected
                                    ELSE Or(ret.error, "Login failed")]
            /\ UNCHANGED mounted
  ELSE UNCHANGED <<mounted, form>>

\* Signup.handleSubmit after `await signup(...)` returned ret
SignupReturn(ret) ==
  IF mounted = "Signup"
  THEN IF ret.success
       THEN /\ mounted' = "Login"
            /\ form' = [FormInit EXCEPT !.successMessage = AccountCreated]
       ELSE /\ form' = [form EXCEPT !.loading = FALSE,
                                    !.error = Or(ret.error, "Signup failed")]
            /\ UNCHANGED mounted
  ELSE UNCHANGED <<mounted, form>>

\* the links between the two forms
GoSignup ==
  /\ ~navPending
  /\ mounted = "Login"
  /\ FormRendered
  /\ ~form.loading
  /\ mounted' = "Signup"
  /\ form' = FormInit
  /\ last' = Step("goSignup", NoVal, NoResponse, NoResult)
  /\ request' = NoRequest
  /\ UNCHANGED <<authVars, localStorage, feedbackPc, navPending, pageVars>>

GoLogin ==
  /\ ~navPending
  /\ mounted = "Signup"
  /\ FormRendered
  /\ ~form.loading
  /\ mounted' = "Login"
  /\ form' = FormInit
  /\ last' = Step("goLogin", NoVal, NoResponse, NoResult)
  /\ request' = NoRequest
  /\ UNCHANGED <<authVars, localStorage, feedbackPc, navPending, pageVars>>

\* the /login route renders the form once checkAuth has settled
MountLogin ==
  /\ ~navPending
  /\ mounted = "none"
  /\ FormRendered
  /\ mounted' = "Login"
  /\ form' = FormInit
  /\ last' = Step("mountLogin", NoVal, NoResponse, NoResult)
  /\ request' = NoRequest
  /\ UNCHANGED <<authVars, localStorage, feedbackPc, navPending, pageVars>>

(***************************************************************************)
(* Initial state: AuthProvider is constructed on a fresh page              *)
(***************************************************************************)
InitialStorages ==
  {EmptyStorage} \cup
  {[token |-> t, user |-> JSONstringify(u)] : t \in Tokens, u \in Users}

Init ==
  /\ localStorage \in InitialStorages
  /\ user = NoVal
  /\ loading = TRUE
  /\ token = localStorage.token
  /\ checkPc = "mount"
  /\ storedToken = NoVal
  /\ loginPc = [i \in LoginIds |-> "idle"]
  /\ access_token = [i \in LoginIds |-> NoVal]
  /\ signupPc = "idle"
  /\ feedbackPc = "idle"
  /\ navPending = FALSE
  /\ last = Step("init", NoVal, NoResponse, NoResult)
  /\ request = NoRequest
  /\ mounted = "none"
  /\ dashboard = DashboardInit
  /\ historyView = HistoryInit
  /\ card = NoCard
  /\ form = FormInit

(***************************************************************************)
(* checkAuth (mount effect)                                                *)
(***************************************************************************)
CheckAuthStart ==
  /\ ~navPending
  /\ checkPc = "mount"
  /\ IF Truthy(localStorage.token)
     THEN /\ checkPc' = "await"
          /\ storedToken' = localStorage.token
          /\ UNCHANGED loading
     ELSE /\ checkPc' = "done"
          /\ storedToken' = NoVal
          /\ loading' = FALSE
  /\ last' = Step("checkAuthStart", NoVal, NoResponse, NoResult)
  /\ UNCHANGED <<localStorage, user, token, loginPc, access_token, signupPc, feedbackPc, navPending>>
  /\ request' = IF Truthy(localStorage.token)
                THEN RequestInterceptor("/auth/me", localStorage)
                ELSE NoRequest
  /\ UNCHANGED viewVars

\* variant: setLoading(false) is reached on the success path only
CheckAuthResolve_LoadingInTry(r) ==
  /\ ~navPending
  /\ checkPc = "await"
  /\ IF r.kind = "ok"
     THEN /\ user' = r.payload
          /\ token' = storedToken
          /\ loading' = FALSE
          /\ UNCHANGED <<localStorage, navPending>>
     ELSE /\ localStorage' = EmptyStorage
          /\ navPending' = InterceptNav(r, navPending)
          /\ UNCHANGED <<user, token, loading>>
  /\ checkPc' = "done"
  /\ storedToken' = NoVal
  /\ last' = Step("checkAuth", NoVal, r, NoResult)
  /\ UNCHANGED <<loginPc, access_token, signupPc, feedbackPc>>
  /\ request' = NoRequest
  /\ UNCHANGED viewVars

CheckAuthResolve(r) ==
  /\ ~navPending
  /\ checkPc = "await"
  /\ IF r.kind = "ok"
     THEN /\ user' = r.payload
          /\ token' = storedToken
          /\ UNCHANGED <<localStorage, navPending>>
     ELSE /\ localStorage' = EmptyStorage
          /\ navPending' = InterceptNav(r, navPending)
          /\ UNCHANGED <<user, token>>
  /\ loading' = FALSE
  /\ checkPc' = "done"
  /\ storedToken' = NoVal
  /\ last' = Step("checkAuth", NoVal, r, NoResult)
  /\ UNCHANGED <<loginPc, access_token, signupPc, feedbackPc>>
  /\ request' = NoRequest
  /\ UNCHANGED viewVars

(***************************************************************************)
(* login                                                                   *)
(***************************************************************************)
LoginStart(i) ==
  /\ ~navPending
  /\ FormRendered
  /\ loginPc[i] = "idle"
  /\ loginPc' = [loginPc EXCEPT ![i] = "awaitLogin"]
  /\ access_token' = [access_token EXCEPT ![i] = NoVal]
  /\ last' = Step("loginStart", NoVal, NoResponse, NoResult)
  /\ UNCHANGED <<localStorage, user, token, loading, checkPc, storedToken,
                 signupPc, feedbackPc, navPending>>
  /\ request' = RequestInterceptor("/auth/login", localStorage)
  /\ UNCHANGED viewVars

\* variant: the body is destructured before the try block, so the TypeError
\* of a null body escapes and the call returns no result
LoginResolveLogin_DestructureOutsideTry(i, r) ==
  /\ ~navPending
  /\ loginPc[i] = "awaitLogin"
  /\ IF r.kind = "ok" /\ r.payload # NoVal
     THEN /\ localStorage' = [localStorage EXCEPT !.token = ToStorage(r.payload)]
          /\ token' = r.payload
          /\ access_token' = [access_token EXCEPT ![i] = r.payload]
          /\ loginPc' = [loginPc EXCEPT ![i] = "awaitMe"]
          /\ last' = Step("loginToken", NoVal, r, NoResult)
          /\ UNCHANGED navPending
     ELSE /\ localStorage' = InterceptStorage(r, localStorage)
          /\ navPending' = InterceptNav(r, navPending)
          /\ loginPc' = [loginPc EXCEPT ![i] = "idle"]
          /\ last' = Step("login", NoVal, r,
                          IF r.kind = "ok" THEN NoResult
                          ELSE Failure(ErrorMessage(AxiosError(r), "Login failed")))
          /\ UNCHANGED <<token, access_token>>
  /\ UNCHANGED <<user, loading, checkPc, storedToken, signupPc, feedbackPc>>
  /\ request' = IF r.kind = "ok" /\ r.payload # NoVal
                THEN RequestInterceptor("/auth/me", localStorage')
                ELSE NoRequest
  /\ IF r.kind = "ok" /\ r.payload # NoVal
     THEN LoginTokenSet(r.payload)
     ELSE LoginReturn(last'.ret)
  /\ UNCHANGED pageVars

LoginResolveLogin(i, r) ==
  /\ ~navPending
  /\ loginPc[i] = "awaitLogin"
  /\ IF r.kind = "ok" /\ r.payload # NoVal
     THEN /\ localStorage' = [localStorage EXCEPT !.token = ToStorage(r.payload)]
          /\ token' = r.payload
          /\ access_token' = [access_token EXCEPT ![i] = r.payload]
          /\ loginPc' = [loginPc EXCEPT ![i] = "awaitMe"]
          /\ last' = Step("loginToken", NoVal, r, NoResult)
          /\ UNCHANGED navPending
     ELSE /\ localStorage' = InterceptStorage(r, localStorage)
          /\ navPending' = InterceptNav(r, navPending)
          /\ loginPc' = [loginPc EXCEPT ![i] = "idle"]
          /\ last' = Step("login", NoVal, r,
                          Failure(ErrorMessage(IF r.kind = "ok" THEN TypeError
                                               ELSE AxiosError(r), "Login failed")))
          /\ UNCHANGED <<token, access_token>>
  /\ UNCHANGED <<user, loading, checkPc, storedToken, signupPc, feedbackPc>>
  /\ request' = IF r.kind = "ok" /\ r.payload # NoVal
                THEN RequestInterceptor("/auth/me", localStorage')
                ELSE NoRequest
  /\ IF r.kind = "ok" /\ r.payload # NoVal
     THEN LoginTokenSet(r.payload)
     ELSE LoginReturn(last'.ret)
  /\ UNCHANGED pageVars

LoginResolveMe(i, r) ==
  /\ ~navPending
  /\ loginPc[i] = "awaitMe"
  /\ IF r.kind = "ok"
     THEN /\ user' = r.payload
          /\ localStorage' = [localStorage EXCEPT !.user = JSONstringify(r.payload)]
          /\ last' = Step("loginMe", access_token[i], r, Success)
          /\ UNCHANGED navPending
     ELSE /\ localStorage' = InterceptStorage(r, localStorage)
          /\ navPending' = InterceptNav(r, navPending)
          /\ last' = Step("loginMe", access_token[i], r,
                          Failure(ErrorMessage(AxiosError(r), "Login failed")))
          /\ UNCHANGED user
  /\ loginPc' = [loginPc EXCEPT ![i] = "idle"]
  /\ access_token' = [access_token EXCEPT ![i] = NoVal]
  /\ UNCHANGED <<token, loading, checkPc, storedToken, signupPc, feedbackPc>>
  /\ request' = NoRequest
  /\ LoginReturn(last'.ret)
  /\ UNCHANGED pageVars

(***************************************************************************)
(* signup                                                                  *)
(***************************************************************************)
SignupStart ==
  /\ ~navPending
  /\ FormRendered
  /\ signupPc = "idle"
  /\ signupPc' = "await"
  /\ last' = Step("signupStart", NoVal, NoResponse, NoResult)
  /\ UNCHANGED <<localStorage, user, token, loading, checkPc, storedToken,
                 loginPc, access_token, feedbackPc, navPending>>
  /\ request' = RequestInterceptor("/auth/signup", localStorage)
  /\ UNCHANGED viewVars

\* variant: a successful signup drops the stored session
SignupResolve_ClearsSession(r) ==
  /\ ~navPending
  /\ signupPc = "await"
  /\ IF r.kind = "ok"
     THEN /\ last' = Step("signup", NoVal, r, Success)
          /\ localStorage' = EmptyStorage
          /\ UNCHANGED navPending
     ELSE /\ localStorage' = InterceptStorage(r, localStorage)
          /\ navPending' = InterceptNav(r, navPending)
          /\ last' = Step("signup", NoVal, r,
                          Failure(ErrorMessage(AxiosError(r), "Signup failed")))
  /\ signupPc' = "idle"
  /\ UNCHANGED <<user, token, loading, checkPc, storedToken, loginPc, access_token, feedbackPc>>
  /\ request' = NoRequest
  /\ SignupReturn(last'.ret)
  /\ UNCHANGED pageVars

SignupResolve(r) ==
  /\ ~navPending
  /\ signupPc = "await"
  /\ IF r.kind = "ok"
     THEN /\ last' = Step("signup", NoVal, r, Success)
          /\ UNCHANGED <<localStorage, navPending>>
     ELSE /\ localStorage' = InterceptStorage(r, localStorage)
          /\ navPending' = InterceptNav(r, navPending)
          /\ last' = Step("signup", NoVal, r,
                          Failure(ErrorMessage(AxiosError(r), "Signup failed")))
  /\ signupPc' = "idle"
  /\ UNCHANGED <<user, token, loading, checkPc, storedToken, loginPc, access_token, feedbackPc>>
  /\ request' = NoRequest
  /\ SignupReturn(last'.ret)
  /\ UNCHANGED pageVars

(***************************************************************************)
(* logout                                                                  *)
(***************************************************************************)
\* variant: logout forgets to remove the persisted user
Logout_KeepsStoredUser ==
  /\ ~navPending
  /\ localStorage' = [localStorage EXCEPT !.token = NoVal]
  /\ user' = NoVal
  /\ token' = NoVal
  /\ last' = Step("logout", NoVal, NoResponse, NoResult)
  /\ UNCHANGED <<loading, checkPc, storedToken, loginPc, access_token, signupPc, feedbackPc,
                 navPending>>
  /\ request' = NoRequest
  /\ UNCHANGED viewVars

Logout ==
  /\ ~navPending
  /\ localStorage' = EmptyStorage
  /\ user' = NoVal
  /\ token' = NoVal
  /\ last' = Step("logout", NoVal, NoResponse, NoResult)
  /\ UNCHANGED <<loading, checkPc, storedToken, loginPc, access_token, signupPc, feedbackPc,
                 navPending>>
  /\ request' = NoRequest
  /\ UNCHANGED viewVars

(***************************************************************************)
(* a feedback request issued by a protected view                           *)
(***************************************************************************)
FeedbackStart ==
  /\ ~navPending
  /\ ProtectedRoute = "children"
  /\ feedbackPc = "idle"
  /\ feedbackPc' = "await"
  /\ last' = Step("feedbackStart", NoVal, NoResponse, NoResult)
  /\ UNCHANGED <<localStorage, user, token, loading, checkPc, storedToken,
                 loginPc, access_token, signupPc, navPending>>
  /\ request' = RequestInterceptor("/feedback", localStorage)
  /\ UNCHANGED viewVars

FeedbackResolve(r) ==
  /\ ~navPending
  /\ feedbackPc = "await"
  /\ localStorage' = InterceptStorage(r, localStorage)
  /\ navPending' = InterceptNav(r, navPending)
  /\ feedbackPc' = "idle"
  /\ last' = Step("feedback", NoVal, r, NoResult)
  /\ UNCHANGED <<user, token, loading, checkPc, storedToken, loginPc, access_token, signupPc>>
  /\ request' = NoRequest
  /\ UNCHANGED viewVars

(***************************************************************************)
(* the full navigation forced by the response interceptor: the document is *)
(* replaced, pending continuations are dropped, AuthProvider is rebuilt    *)
(***************************************************************************)
PageLoad ==
  /\ navPending
  /\ navPending' = FALSE
  /\ user' = NoVal
  /\ loading' = TRUE
  /\ token' = localStorage.token
  /\ checkPc' = "mount"
  /\ storedToken' = NoVal
  /\ loginPc' = [i \in LoginIds |-> "idle"]
  /\ access_token' = [i \in LoginIds |-> NoVal]
  /\ signupPc' = "idle"
  /\ feedbackPc' = "idle"
  /\ last' = Step("pageLoad", NoVal, NoResponse, NoResult)
  /\ UNCHANGED localStorage
  /\ request' = NoRequest
  /\ mounted' = "none"
  /\ dashboard' = DashboardInit
  /\ historyView' = HistoryInit
  /\ form' = FormInit
  /\ UNCHANGED card

Next ==
  \/ CheckAuthStart
  \/ \E r \in MeResponses : CheckAuthResolve(r)
  \/ \E i \in LoginIds : LoginStart(i)
  \/ \E i \in LoginIds : \E r \in LoginResponses : LoginResolveLogin(i, r)
  \/ \E i \in LoginIds : \E r \in MeResponses : LoginResolveMe(i, r)
  \/ SignupStart
  \/ \E r \in PlainResponses : SignupResolve(r)
  \/ Logout
  \/ FeedbackStart
  \/ \E r \in PlainResponses : FeedbackResolve(r)
  \/ PageLoad

Spec == Init /\ [][Next]_vars

\* every request resolves, and the browser performs a navigation it was asked for
SpecLive ==
  /\ Spec
  /\ WF_vars(CheckAuthStart)
  /\ WF_vars(\E r \in MeResponses : CheckAuthResolve(r))
  /\ WF_vars(PageLoad)

(***************************************************************************)
(* The protected views of a signed-in user                                 *)
(***************************************************************************)
\* the session is at rest and the dashboard route has just been entered
InitViews ==
  /\ localStorage = [token |-> TokenName(1), user |-> JSONstringify(UserName(1))]
  /\ user = UserName(1)
  /\ loading = FALSE
  /\ token = TokenName(1)
  /\ checkPc = "done"
  /\ storedToken = NoVal
  /\ loginPc = [i \in LoginIds |-> "idle"]
  /\ access_token = [i \in LoginIds |-> NoVal]
  /\ signupPc = "idle"
  /\ feedbackPc = "idle"
  /\ navPending = FALSE
  /\ last = Step("init", NoVal, NoResponse, NoResult)
  /\ request = NoRequest
  /\ mounted = "Dashboard"
  /\ dashboard = DashboardInit
  /\ historyView = HistoryInit
  /\ card = NoCard
  /\ form = FormInit

NextViews ==
  \/ \E text \in FeedbackTexts : SetFeedback(text)
  \/ HandleSubmit
  \/ \E r \in SubmitResponses : SubmitResolve(r)
  \/ CloseFallbackWarning
  \/ CloseSuccess
  \/ NavigateHistory
  \/ \E r \in HistoryResponses : LoadHistoryResolve(r)
  \/ \E k \in DOMAIN historyView.history : SetSelectedFeedback(k)
  \/ NavigateDashboard
  \/ \E r \in PlainResponses : FeedbackResolve(r)
  \/ PageLoad

SpecViews == InitViews /\ [][NextViews]_vars

(***************************************************************************)
(* InsightsCard as a function of its prop                                  *)
(***************************************************************************)
ThemeSamples ==
  {Theme("Pricing", Num(500), Num(2)),
   Theme("Support", Num(-500), Num(3)),
   Theme("Speed", Num(50), Num(1)),
   Theme("Pricing", NumString(730), Num(2)),
   Theme("Pricing", NaNString, Num(2)),
   Theme("Pricing", Undef, Undef),
   Theme(Undefined, Null, Null),
   Theme("Pricing", Num(5000), Num(2)),
   Theme("Support", Num(-5000), Num(2)),
   Theme("Pricing", Num(500), Num(-3)),
   Theme("Pricing", Num(500), Num(0)),
   Theme("Speed", Num(100), Num(1)),
   Theme("Speed", Num(-100), NumString(2))}

RECURSIVE ThemeLists(_)
ThemeLists(n) ==
  IF n = 0 THEN {<<>>}
  ELSE ThemeLists(n - 1)
       \cup {Append(l, t) : l \in {x \in ThemeLists(n - 1) : Len(x) = n - 1},
                            t \in ThemeSamples}

CardInputs ==
  {Insights(Undefined, Undefined, Undef, Array(l)) : l \in ThemeLists(MaxThemes)}
  \cup {Insights(Undefined, Undefined, Num(42), Undef),
        Insights(Undefined, Undefined, Undef, [type |-> "string", len |-> 7]),
        Insights(Undefined, Undefined, Undef, Array(<<Null>>))}

InitCard ==
  /\ localStorage = [token |-> TokenName(1), user |-> JSONstringify(UserName(1))]
  /\ user = UserName(1)
  /\ loading = FALSE
  /\ token = TokenName(1)
  /\ checkPc = "done"
  /\ storedToken = NoVal
  /\ loginPc = [i \in LoginIds |-> "idle"]
  /\ access_token = [i \in LoginIds |-> NoVal]
  /\ signupPc = "idle"
  /\ feedbackPc = "idle"
  /\ navPending = FALSE
  /\ last = Step("init", NoVal, NoResponse, NoResult)
  /\ request = NoRequest
  /\ mounted = "none"
  /\ dashboard = DashboardInit
  /\ historyView = HistoryInit
  /\ card \in {[insights |-> x, out |-> NoRender] : x \in CardInputs}
  /\ form = FormInit

\* the component function is called with the prop
InsightsCardRender ==
  /\ card.out = NoRender
  /\ card' = [card EXCEPT !.out = InsightsCard(card.insights)]
  /\ UNCHANGED <<authVars, localStorage, feedbackPc, navPending, last, request,
                 mounted, dashboard, historyView, form>>

NextCard == InsightsCardRender

SpecCard == InitCard /\ [][NextCard]_vars

(***************************************************************************)
(* The forms of an anonymous visitor                                       *)
(***************************************************************************)
\* checkAuth has settled without a stored token and /login is shown
InitForms ==
  /\ localStorage = EmptyStorage
  /\ user = NoVal
  /\ loading = FALSE
  /\ token = NoVal
  /\ checkPc = "done"
  /\ storedToken = NoVal
  /\ loginPc = [i \in LoginIds |-> "idle"]
  /\ access_token = [i \in LoginIds |-> NoVal]
  /\ signupPc = "idle"
  /\ feedbackPc = "idle"
  /\ navPending = FALSE
  /\ last = Step("init", NoVal, NoResponse, NoResult)
  /\ request = NoRequest
  /\ mounted = "Login"
  /\ dashboard = DashboardInit
  /\ historyView = HistoryInit
  /\ card = NoCard
  /\ form = FormInit

\* POST /feedback/submit, with one fallback body and one genuine body
PlainSubmitResponses ==
  OkResponses(Bodies({Str(12, FALSE, FALSE), Str(50, FALSE, FALSE)}, {Undef}))
  \cup ErrResponses

NextForms ==
  \/ \E v \in Usernames : SetUsername(v)
  \/ \E v \in Emails : SetEmail(v)
  \/ \E v \in Passwords : SetPassword(v)
  \/ LoginFormSubmit
  \/ SignupFormSubmit
  \/ \E r \in LoginResponses : LoginResolveLogin(1, r)
  \/ \E r \in MeResponses : LoginResolveMe(1, r)
  \/ \E r \in PlainResponses : SignupResolve(r)
  \/ GoSignup
  \/ GoLogin
  \/ PageLoad
  \/ CheckAuthStart
  \/ MountLogin
  \/ \E text \in FeedbackTexts : SetFeedback(text)
  \/ HandleSubmit
  \/ \E r \in PlainSubmitResponses : SubmitResolve(r)
  \/ CloseFallbackWarning
  \/ CloseSuccess

SpecForms == InitForms /\ [][NextForms]_vars

(***************************************************************************)
(* The history view of a signed-in user                                    *)
(***************************************************************************)
\* the session is at rest, /history has just been entered and loadHistory
\* is waiting for its response
InitHistory ==
  /\ localStorage = [token |-> TokenName(1), user |-> JSONstringify(UserName(1))]
  /\ user = UserName(1)
  /\ loading = FALSE
  /\ token = TokenName(1)
  /\ checkPc = "done"
  /\ storedToken = NoVal
  /\ loginPc = [i \in LoginIds |-> "idle"]
  /\ access_token = [i \in LoginIds |-> NoVal]
  /\ signupPc = "idle"
  /\ feedbackPc = "idle"
  /\ navPending = FALSE
  /\ last = Step("init", NoVal, NoResponse, NoResult)
  /\ request = RequestInterceptor("/feedback/history", localStorage)
  /\ mounted = "FeedbackHistory"
  /\ dashboard = DashboardInit
  /\ historyView = HistoryInit
  /\ card = NoCard
  /\ form = FormInit

NextHistory ==
  \/ \E r \in ItemListResponses : LoadHistoryResolve(r)
  \/ \E k \in DOMAIN historyView.history : SetSelectedFeedback(k)
  \/ \E k \in DOMAIN historyView.history : HandleDeleteClick(k)
  \/ CancelDelete
  \/ HandleDeleteConfirm
  \/ \E k \in DOMAIN historyView.pending : \E r \in PlainResponses : DeleteResolve(k, r)
  \/ PageLoad

SpecHistory == InitHistory /\ [][NextHistory]_vars

TypeOK ==
  /\ localStorage.token \in Tokens \cup {NoVal, "'undefined'"}
  /\ loading \in BOOLEAN
  /\ checkPc \in {"mount", "await", "done"}
  /\ \A i \in LoginIds : loginPc[i] \in {"idle", "awaitLogin", "awaitMe"}

(***************************************************************************)
(* Claims about the session store and the HTTP client wrapper              *)
(***************************************************************************)
LoginReturned == last.op \in {"login", "loginMe"}

\* C1: when a token is persisted at start and the current-user request of
\* checkAuth fails (network error or 401), then at the end of checkAuth the
\* persisted token and user are absent, isAuthenticated is false and the
\* protected view is not rendered.  (Stated for the failures after which the
\* page stays: a 401 is followed by the forced navigation.)
C1_FailedCheckLeavesAnonymous ==
  (last.op = "checkAuth" /\ last.kind # "ok" /\ ~navPending)
     => /\ localStorage = EmptyStorage
        /\ Anonymous
        /\ ProtectedRoute # "children"

\* C2: checkAuth, once its request resolves, always ends with loading false,
\* whatever the stored session and the outcome; loading stays false for the
\* life of the provider and the session is then exactly one of Anonymous and
\* Authenticated.
C2_InitializeSettles ==
  /\ [](checkPc = "done" => (~loading /\ (Anonymous # Authenticated)))
  /\ ((checkPc # "done") ~> (checkPc = "done" /\ ~loading))

C2_Witness ==
  /\ checkPc = "done"
  /\ last.op = "checkAuth"
  /\ last.kind \in {"network", "http"}
  /\ ~loading

\* C3: right after logout, from whatever state it was called in, the
\* in-memory user and token are null, both persisted entries are absent and
\* isAuthenticated is false.
C3_LogoutClears ==
  last.op = "logout"
     => /\ user = NoVal
        /\ token = NoVal
        /\ localStorage = EmptyStorage
        /\ ~isAuthenticated

C3_Witness ==
  /\ last.op = "logout"
  /\ last.wasAuth
  /\ \E i \in LoginIds : loginPc[i] = "awaitMe"

\* C4: a 401 response to any request made through the wrapper removes the
\* persisted token and user and forces the navigation to the login view, and
\* when the session was Authenticated it ends up Anonymous.
Got401 == last.status = 401

C4_UnauthorizedEndsSession ==
  /\ [](Got401 => (localStorage = EmptyStorage /\ navPending))
  /\ ((Got401 /\ last.wasAuth)
        ~> (Anonymous /\ user = NoVal /\ localStorage = EmptyStorage))

C4_Witness ==
  /\ Got401
  /\ last.op = "feedback"
  /\ last.wasAuth
  /\ navPending
  /\ localStorage = EmptyStorage

\* C5: a login call that returns a failure result (the login request or the
\* current-user request failed) leaves the session Anonymous: isAuthenticated
\* is false and no token is persisted.  (Stated for well-formed login
\* bodies and for the failures after which the page stays.)
C5_FailedLoginStaysAnonymous ==
  (LoginReturned /\ ~last.ret.success /\ ~navPending
     /\ last.tok \in Tokens \cup {NoVal})
     => /\ Anonymous
        /\ localStorage.token = NoVal

\* C6: once checkAuth has finished, the persisted token and the persisted
\* user are both present or both absent (stated here for the states in which
\* no login call is in progress and the stored token is a well-formed one,
\* the weakest reading of the claim).
C6_PersistedPairConsistent ==
  (checkPc = "done" /\ (\A i \in LoginIds : loginPc[i] = "idle")
     /\ localStorage.token \in Tokens \cup {NoVal})
     => ((localStorage.token = NoVal) <=> (localStorage.user = NoVal))

\* C7: a signup whose request succeeds returns {success: true} and leaves the
\* in-memory user, token and loading flag and both persisted entries as they
\* were.
C7_SignupSuccessFrame ==
  [][(last'.op = "signup" /\ last'.kind = "ok" /\ signupPc = "await" /\ signupPc' = "idle")
        => /\ UNCHANGED <<user, token, loading, localStorage>>
           /\ last'.ret = Success]_vars

C7_Witness ==
  /\ last.op = "signup"
  /\ last.kind = "ok"
  /\ last.ret = Success
  /\ isAuthenticated
  /\ localStorage.user # NoVal

\* C8: when the login request and the current-user request of a login call
\* both succeed, the call returns {success: true} and at that point the
\* persisted and the in-memory token are the access token the backend
\* returned, and the in-memory and the persisted (serialized) user are the
\* record of the current-user response.
C8_LoginSuccessPersists ==
  (last.op = "loginMe" /\ last.kind = "ok" /\ last.tok \in Tokens)
     => /\ last.ret = Success
        /\ localStorage.token = last.tok
        /\ token = last.tok
        /\ user = last.payload
        /\ localStorage.user = JSONstringify(last.payload)

\* C9 (as stated): when the login request is rejected with a response that
\* carries a detail field, login returns {success: false, error: detail}.
C9_DetailFieldReturned ==
  (last.op = "login" /\ last.kind = "http" /\ last.detail # NoVal)
     => last.ret = Failure(last.detail)

\* C9 (amended): when the login request is rejected with a response that
\* carries a non-empty detail, login returns {success: false, error: detail},
\* before the transport message and every default.
C9_NonEmptyDetailReturned ==
  (last.op = "login" /\ last.kind = "http" /\ Truthy(last.detail))
     => last.ret = Failure(last.detail)

C9_Witness ==
  /\ last.op = "login"
  /\ last.kind = "http"
  /\ last.detail = "Invalid credentials"
  /\ last.ret = Failure("Invalid credentials")

\* C10: a login or signup that fails at connection level (no response,
\* ERR_NETWORK) returns the "Cannot connect to server" message.
C10_NetworkFailureMessage ==
  (last.op \in {"login", "loginMe", "signup"} /\ last.kind = "network")
     => last.ret = Failure(CannotConnect)

\* C11: whatever the backend answers (success, error with or without detail,
\* network failure, malformed success body), login and signup return
\* {success: true} or {success: false, error: message}; nothing is thrown.
IsResult(ret) == ret = Success \/ (~ret.success /\ Truthy(ret.error))

C11_ResultNeverThrown ==
  last.op \in {"login", "loginMe", "signup"} => IsResult(last.ret)

C11_Witness ==
  /\ last.op = "login"
  /\ last.kind = "ok"
  /\ last.payload = NoVal
  /\ last.ret = Failure(TypeError.message)

\* C12: the navigation guard shows the waiting indicator, and neither the
\* protected view nor a redirect, while loading is true; once loading is false
\* it shows the protected view if and only if a token is held in memory, and
\* redirects to the login view otherwise.
C12_GuardDecision ==
  /\ loading => ProtectedRoute = "spinner"
  /\ ~loading =>
       /\ ProtectedRoute \in {"children", "redirect"}
       /\ (ProtectedRoute = "children") <=> Truthy(token)

C12_Witness ==
  /\ loading
  /\ Truthy(token)
  /\ ProtectedRoute = "spinner"

(***************************************************************************)
(* C13: every request that leaves the HTTP client carries the header       *)
(* Authorization: Bearer <t> exactly when a token t is persisted at the    *)
(* moment it is sent, t being the value persisted then; with no persisted  *)
(* token there is no Authorization header.                                 *)
(***************************************************************************)
C13_BearerIffPersisted ==
  request.url # NoVal =>
    request.Authorization = IF localStorage.token # NoVal
                            THEN <<"Bearer", localStorage.token>>
                            ELSE <<>>

\* the /auth/me request of a login carries the token that login has just
\* persisted, while the session had none before
C13_Witness ==
  /\ request.url = "/auth/me"
  /\ last.op = "loginToken"
  /\ localStorage.token \in Tokens
  /\ request.Authorization = <<"Bearer", localStorage.token>>

(***************************************************************************)
(* Claims about the fallback classification of the protected views         *)
(***************************************************************************)
\* the text of a story is absent or shorter than the minimum length
ShortText(text) == text.len = 0 \/ text.len < MinStoryLength

\* the rule of the story classifier, on a story with a text, a source and
\* a reason
StoryRule(story) ==
  \/ story.source = "fallback"
  \/ Truthy(story.reason)
  \/ story.story.marker
  \/ story.story.canned
  \/ ShortText(story.story)

\* the story card of the history detail pane is about to be rendered
DetailStoryRendered ==
  DetailStoryShown /\ ~DetailStoryThrows(historyView.selectedFeedback)

(***************************************************************************)
(* C14: a story is flagged as fallback if and only if its source is        *)
(* 'fallback', a reason is present, its text contains the '[Fallback]'     *)
(* marker or the canned opening, or its text is absent or shorter than 50  *)
(* characters; in particular a short text is flagged on the dashboard, in  *)
(* the history detail and by the story card.                               *)
(***************************************************************************)
C14_StoryFallbackRule ==
  /\ DashboardStoryCardShown =>
       /\ StoryCard(dashboard.story) <=> StoryRule(dashboard.story)
       /\ ShortText(dashboard.story.story) => StoryCard(dashboard.story)
  /\ DetailStoryRendered =>
       /\ StoryCard(DetailStory(historyView.selectedFeedback))
            <=> StoryRule([story |-> historyView.selectedFeedback.user_story,
                           source |-> InsightsField(historyView.selectedFeedback.insights, "source"),
                           reason |-> InsightsField(historyView.selectedFeedback.insights, "reason")])
       /\ ShortText(historyView.selectedFeedback.user_story)
            => StoryCard(DetailStory(historyView.selectedFeedback))

\* the dashboard shows a 12-character story without marker or canned
\* opening, flagged as fallback
C14_Witness ==
  /\ DashboardStoryCardShown
  /\ last.op = "submit"
  /\ dashboard.story.story = Str(12, FALSE, FALSE)
  /\ StoryCard(dashboard.story)

\* the rule of the insights classifier
InsightsRule(ins) ==
  \/ ins.source = "fallback"
  \/ Truthy(ins.reason)
  \/ /\ ins.source = Undefined
     /\ ins.summary.type = "string"
     /\ ins.summary.unavailable
  \/ /\ ins.source = Undefined
     /\ ins.themes.type = "array"
     /\ Len(ins.themes.items) = 1
     /\ ins.themes.items[1].type = "object"
     /\ ins.themes.items[1].name = "General Feedback"

\* an insights object of the documented shape: a text summary and a
\* sequence of theme objects, each possibly missing
WellFormed(ins) ==
  /\ ins.type = "object"
  /\ ins.summary.type \in {"undefined", "string"}
  /\ ins.themes.type \in {"undefined", "array"}
  /\ ins.themes.type = "array" =>
       \A k \in 1..Len(ins.themes.items) : ins.themes.items[k].type = "object"

\* a submit has just completed without an error
Submitted == last.op = "submit" /\ last.kind = "ok" /\ dashboard.error = ""

(***************************************************************************)
(* C15: insights are flagged as fallback if and only if the source is      *)
(* 'fallback', a reason is present, the source is absent and the summary   *)
(* contains 'unavailable', or the source is absent and the only theme is   *)
(* named 'General Feedback'; the dashboard warning and the chip of the     *)
(* insights card both follow this rule.                                    *)
(***************************************************************************)
C15_InsightsFallbackRule ==
  /\ Submitted =>
       (dashboard.fallbackWarning
          <=> InsightsRule(dashboard.insights) \/ dashboard.story.source = "fallback")
  /\ (Submitted /\ DashboardInsightsCardShown /\ WellFormed(dashboard.insights)) =>
       (InsightsCard(dashboard.insights).isFallback <=> InsightsRule(dashboard.insights))

(***************************************************************************)
(* C16: the classifiers and the theme normalizer never raise on a          *)
(* malformed payload (a summary that is not a string, themes that are not  *)
(* a sequence, null theme entries, a story that is not a string): a        *)
(* successful submit is never turned into an error, and the cards of the   *)
(* dashboard and of the history detail render.                             *)
(***************************************************************************)
C16_ClassificationNeverRaises ==
  /\ (last.op = "submit" /\ last.kind = "ok") =>
       dashboard.error = "" /\ dashboard.insights # Null
  /\ DashboardInsightsCardShown => ~InsightsCard(dashboard.insights).threw
  /\ DetailStoryShown => ~DetailStoryThrows(historyView.selectedFeedback)
  /\ DetailInsightsCardShown =>
       ~InsightsCard(historyView.selectedFeedback.insights).threw

(***************************************************************************)
(* Claims about the theme normalizer and the sentiment distribution        *)
(***************************************************************************)
\* InsightsCard has been evaluated on a sequence of theme objects
Normalized ==
  /\ card.out.rendered
  /\ ~card.out.threw
  /\ card.insights.themes.type = "array"

ThemeIn(k) == card.insights.themes.items[k]
ThemeOut(k) == card.out.themesData[k]
ThemeIndexes == 1..Len(card.insights.themes.items)

(***************************************************************************)
(* C17: the normalizer turns every sentiment into a number: a numeric      *)
(* string is parsed to its value ("0.73" gives 73.0%), a missing or        *)
(* unparseable sentiment gives 0 (0.0%), and the percentage is never       *)
(* not-a-number.                                                           *)
(***************************************************************************)
C17_SentimentIsNumber ==
  Normalized =>
    \A k \in ThemeIndexes :
      /\ ThemeOut(k).sentiment.type = "numstring"
      /\ (ThemeIn(k).sentiment.type \in {"number", "numstring"}
          /\ ThemeIn(k).sentiment.num \in (-1000)..1000)
           => ThemeOut(k).sentiment.num = ThemeIn(k).sentiment.num
      /\ ThemeIn(k).sentiment.type \in {"undefined", "null", "string"}
           => ThemeOut(k).sentiment.num = 0

(***************************************************************************)
(* C18: every normalized sentiment lies in [-1, 1] and its percentage in   *)
(* [-100, 100]: a sentiment above 1 is clamped to 1.0 (100%), one below    *)
(* -1 to -1.0 (-100%).                                                     *)
(***************************************************************************)
C18_SentimentClamped ==
  Normalized =>
    \A k \in ThemeIndexes :
      ThemeIn(k).sentiment.type \in {"number", "numstring"} =>
        /\ ThemeOut(k).sentiment.num \in (-1000)..1000
        /\ ThemeIn(k).sentiment.num > 1000 => ThemeOut(k).sentiment.num = 1000
        /\ ThemeIn(k).sentiment.num < -1000 => ThemeOut(k).sentiment.num = -1000

(***************************************************************************)
(* C19: every normalized count is a positive integer: a count that is      *)
(* missing, zero or negative (-3) is replaced by 1, a positive count is    *)
(* kept.                                                                   *)
(***************************************************************************)
C19_CountPositive ==
  Normalized =>
    \A k \in ThemeIndexes :
      ThemeIn(k).count.type \in {"undefined", "null", "number"} =>
        /\ ThemeOut(k).count.type = "number"
        /\ ThemeOut(k).count.num > 0
        /\ ThemeOut(k).count.num =
             IF ThemeIn(k).count.type = "number" /\ ThemeIn(k).count.num > 0
             THEN ThemeIn(k).count.num ELSE 1

\* a theme with a sentiment in [-1, 1] and a positive count, both numbers
PlainTheme(t) ==
  /\ t.sentiment.type = "number"
  /\ t.sentiment.num \in (-1000)..1000
  /\ t.count.type = "number"
  /\ t.count.num > 0

\* the bucket of a sentiment: positive above 0.1, negative below -0.1
Bucket(t) ==
  IF t.sentiment.num > 100 THEN "Positive"
  ELSE IF t.sentiment.num < -100 THEN "Negative" ELSE "Neutral"

RECURSIVE SumOfCounts(_, _)
SumOfCounts(items, bucket) ==
  IF items = <<>> THEN 0
  ELSE (IF Bucket(Head(items)) = bucket THEN Head(items).count.num ELSE 0)
       + SumOfCounts(Tail(items), bucket)

(***************************************************************************)
(* C20: the distribution puts each theme in exactly one bucket (positive   *)
(* above 0.1, negative below -0.1, neutral otherwise), the value of a      *)
(* bucket is the sum of the counts of its themes, and empty buckets are    *)
(* omitted: sentiments [0.5, -0.5, 0.05] with counts [2, 3, 1] give        *)
(* positive 2, negative 3, neutral 1.                                      *)
(***************************************************************************)
C20_BucketsSumCounts ==
  (Normalized /\ \A k \in ThemeIndexes : PlainTheme(ThemeIn(k))) =>
    card.out.sentimentDistribution =
      SelectSeq(<<[name |-> "Positive",
                   value |-> SumOfCounts(card.insights.themes.items, "Positive")],
                  [name |-> "Neutral",
                   value |-> SumOfCounts(card.insights.themes.items, "Neutral")],
                  [name |-> "Negative",
                   value |-> SumOfCounts(card.insights.themes.items, "Negative")]>>,
                LAMBDA b : b.value > 0)

(***************************************************************************)
(* Claims about the forms                                                  *)
(***************************************************************************)
\* the signup input that validation is to keep from the backend, the
\* username and the email taken as the form submits them (trimmed)
SignupInvalid(f) ==
  \/ Trim(f.username) = ""
  \/ Len(Trim(f.username)) < 3
  \/ Trim(f.email) = ""
  \/ ~EmailMatches(Trim(f.email))
  \/ f.password = ""
  \/ Len(f.password) < 6

LoginInvalid(f) == Trim(f.username) = "" \/ f.password = ""

(***************************************************************************)
(* C21: no request is issued for input that fails validation, and an      *)
(* error message is set instead: signup with a username that is blank or   *)
(* shorter than 3 characters, an email that is blank or malformed, a       *)
(* password that is empty or shorter than 6 characters; login with a       *)
(* blank username or an empty password; the dashboard with a blank         *)
(* feedback text.                                                          *)
(***************************************************************************)
C21_InvalidInputSendsNothing ==
  /\ (last.op = "signupFormSubmit" /\ SignupInvalid(form)) =>
       request.url = NoVal /\ form.error # ""
  /\ (last.op = "loginFormSubmit" /\ LoginInvalid(form)) =>
       request.url = NoVal /\ form.error # ""
  /\ (last.op = "handleSubmit" /\ Trim(dashboard.feedback) = "") =>
       request.url = NoVal /\ dashboard.error # ""


\* the ids shown in the list
ListedIds == {historyView.history[k].id : k \in DOMAIN historyView.history}

\* every request of the history view has resolved
HistoryAtRest ==
  /\ mounted = "FeedbackHistory"
  /\ ~historyView.loading
  /\ historyView.pending = <<>>

\* C22: once every in-flight history request has resolved, the list holds no
\* item whose delete succeeded (no completion of another delete puts a
\* removed item back)
C22_DeletedStaysDeleted ==
  HistoryAtRest => ListedIds \cap historyView.confirmed = {}


\* C27: in the history view the selected feedback is null or an item of the
\* current list, also when an item is selected while its delete is in flight
C27_SelectedInList ==
  (mounted = "FeedbackHistory" /\ historyView.selectedFeedback # Null)
     => historyView.selectedFeedback.id \in ListedIds


\* the step is the completion of the k-th delete in flight
DeleteCompletes(k) ==
  /\ last'.op = "deleteFeedback"
  /\ k \in DOMAIN historyView.pending
  /\ historyView'.pending = Remove(historyView.pending, k)

\* C28: a delete whose request fails changes nothing in the history view
\* except the error message; the list loses an item only when a delete is
\* confirmed by the backend, and then it loses exactly that item
C28_DeleteChangesOnlyItsItem ==
  [][/\ \A k \in DOMAIN historyView.pending :
          (DeleteCompletes(k) /\ last'.kind # "ok")
             => /\ historyView'.error = FailedToDelete
                /\ historyView'.history = historyView.history
                /\ historyView'.selectedFeedback = historyView.selectedFeedback
                /\ historyView'.deleteDialogOpen = historyView.deleteDialogOpen
                /\ historyView'.feedbackToDelete = historyView.feedbackToDelete
     /\ (last'.op = "deleteFeedback" /\ last'.kind = "ok")
          => \E k \in DOMAIN historyView.pending :
                /\ DeleteCompletes(k)
                /\ historyView'.history =
                     Without(historyView.history, historyView.pending[k].feedbackToDelete)
     /\ (mounted' = "FeedbackHistory" /\ ~historyView.loading
         /\ historyView'.history # historyView.history)
          => last'.op = "deleteFeedback" /\ last'.kind = "ok"
    ]_vars


\* the session has been cleared: no token and no user, in memory or persisted
\* (the initial check has settled, so the views and their logout control are
\* rendered)
SessionCleared ==
  /\ ~loading
  /\ token = NoVal
  /\ localStorage.token = NoVal
  /\ user = NoVal
  /\ localStorage.user = NoVal

\* C23: once the session is cleared (logout, or a 401 followed by the page
\* load) the in-memory and the persisted user stay absent; a new login call
\* stores its token before any user, so no step from a cleared session may
\* set a user, in particular not a late /auth/me response
C23_UserInvalidatedWithToken ==
  [][SessionCleared => (user' = NoVal /\ localStorage'.user = NoVal)]_vars


\* the initial check has settled, no login or signup call is waiting for a
\* response and no forced navigation is pending
AuthAtRest ==
  /\ ~loading
  /\ checkPc = "done"
  /\ \A i \in LoginIds : loginPc[i] = "idle"
  /\ signupPc = "idle"
  /\ ~navPending

\* C25: whenever loading is false and no auth request is in flight, the
\* in-memory token and the persisted token agree: isAuthenticated is true
\* exactly when a token is persisted
C25_TokensAgree ==
  AuthAtRest => (isAuthenticated <=> localStorage.token # NoVal)


\* the verdicts of the last submit, as stored for display
StoryClassifiedFallback ==
  dashboard.story # Null /\ dashboard.story.source = "fallback"
InsightsClassifiedFallback ==
  dashboard.insights # Null /\ IsInsightsFallback(dashboard.insights)

\* C24: a successful submit whose story or insights are classified as
\* fallback is not an error: the error stays empty, sentiment, story and
\* insights are stored, the success notification opens; and the warning
\* flag is set exactly when the story or the insights were classified as
\* fallback
C24_FallbackIsNotAnError ==
  (last.op = "submit" /\ last.kind = "ok") =>
     /\ (StoryClassifiedFallback \/ InsightsClassifiedFallback) =>
           /\ dashboard.error = ""
           /\ dashboard.sentiment # Null
           /\ dashboard.story # Null
           /\ dashboard.insights # Null
           /\ dashboard.successOpen
     /\ dashboard.fallbackWarning
           <=> (StoryClassifiedFallback \/ InsightsClassifiedFallback)


\* C26: for the same feedback record, the story card of the history detail
\* is flagged as fallback exactly when the dashboard's story classification
\* (isStoryFallback on the record's user_story) is fallback, whatever the
\* source and reason of the record's insights
C26_SameStoryVerdict ==
  DetailStoryRendered =>
     (StoryCard(DetailStory(historyView.selectedFeedback))
        <=> IsStoryFallback(StoryText(historyView.selectedFeedback.user_story)))

====
